---- MODULE Spec2Model ----
(***************************************************************************)
(* The simulation engine of src/protolang_simulator.tsx (the React         *)
(* component ProtolangSimulator): the useState cells, the interval effect  *)
(* that ticks while isRunning, simulateStep, triggerContextShift,          *)
(* calculateDriftMetrics and reset.                                        *)
(*                                                                         *)
(* Numbers.  JavaScript numbers are modelled in fixed point.  Scalars      *)
(* (confidence, trust, distance, the traits, a value of Math.random()) are *)
(* integers in units of 1/One; vector components are integers in units of  *)
(* 1/VOne, a product of a noise amplitude being rounded to the nearest     *)
(* unit.  NaN is a value of its own (the record NaN).                      *)
(*                                                                         *)
(* State updates.  A timer callback's setState calls are batched: the      *)
(* updater functions queued by one callback run in queue order in the      *)
(* render that follows it, while everything the callback reads directly    *)
(* (step, agents) is the value of the render that created the interval.    *)
(* One tick is therefore one atomic action.                                *)
(***************************************************************************)
EXTENDS Integers, Sequences, FiniteSets, TLC

\* 1.0 for scalars: confidence, trust, distance, traits, Math.random().
One == 10000
\* 1.0 for vector components (0.005, the forgetting amplitude, is one unit).
VOne == 200

\* for (let i = 0; i < 4; i++)
NumAgents == 4
AgentIds == 0 .. (NumAgents - 1)

\* useState(['α', 'β', 'γ', 'δ', 'ε', 'ζ'])
symbols == <<"alpha", "beta", "gamma", "delta", "epsilon", "zeta">>
SymbolSet == {symbols[i] : i \in 1 .. Len(symbols)}

\* Array.from({length: 3}, ...)
Dim == 3

\* if (memory.length > 50) memory.shift()
MemoryCap == 50
\* [...prev.slice(-29), record]
CommKeep == 29
\* [...prev.slice(-99), sample]
HistoryKeep == 99
\* if (step - mapping.lastUsed > 20)
ForgetAfter == 20
\* if (step > 0 && step % 100 === 0)
ShiftEvery == 100

----------------------------------------------------------------------------
(* Arithmetic helpers *)

Max(a, b) == IF a >= b THEN a ELSE b
Min(a, b) == IF a <= b THEN a ELSE b
Abs(a) == IF a >= 0 THEN a ELSE -a

\* n / d rounded to the nearest integer (d > 0).
RoundDiv(n, d) == (2 * n + d) \div (2 * d)

\* n / d truncated toward zero (d > 0).
TruncDiv(n, d) == IF n >= 0 THEN n \div d ELSE -((-n) \div d)

\* Math.sqrt on a non-negative integer: the integer part of the root.
RECURSIVE IsqrtIter(_, _, _)
IsqrtIter(n, r, b) ==
  IF b = 0 THEN r
  ELSE IF (r + b) <= n \div (r + b)
       THEN IsqrtIter(n, r + b, b \div 2)
       ELSE IsqrtIter(n, r, b \div 2)
Isqrt(n) == IsqrtIter(n, 0, 32768)

\* A JavaScript number that may be NaN.
NaN == [nan |-> TRUE, val |-> 0]
Num(v) == [nan |-> FALSE, val |-> v]
FAdd(x, y) == IF x.nan \/ y.nan THEN NaN ELSE Num(x.val + y.val)
FDiv(x, n) == IF x.nan THEN NaN ELSE Num(x.val \div n)
\* x < v: false when x is NaN.
FLt(x, v) == (~x.nan) /\ x.val < v

----------------------------------------------------------------------------
(* Math.random(): a draw r in 0 .. One-1 stands for the value r/One. *)

\* Math.floor(Math.random() * n)
RandomIndex(r, n) == (r * n) \div One

\* Math.random() * 2 - 1, in vector units
RandomComponent(r) == RoundDiv((2 * r - One) * VOne, One)

\* Array.from({length: 3}, () => Math.random() * 2 - 1)
RandomVector(rs) == [i \in 1 .. Dim |-> RandomComponent(rs[i])]

\* (Math.random() - 0.5) * amp, amp given in hundredths (1, 10 or 20)
Noise(r, ampPct) == RoundDiv((2 * r - One) * ampPct * VOne, 200 * One)

\* 0.3 + Math.random() * 0.4
InitialConfidence(r) == (3 * One) \div 10 + (r * 4) \div 10

\* 0.2 + Math.random() * 0.6
InitialAdaptability(r) == (2 * One) \div 10 + (r * 6) \div 10

\* 0.1 + Math.random() * 0.3
InitialConvergenceSpeed(r) == One \div 10 + (r * 3) \div 10

\* 0.001 + Math.random() * 0.004
InitialForgettingRate(r) == One \div 1000 + (r * 4) \div 1000

\* trustScores[j] = 0.5
InitialTrust == One \div 2

----------------------------------------------------------------------------
(* VectorSpace *)

Dot(u, v) == u[1] * v[1] + u[2] * v[2] + u[3] * v[3]

\* 1 - dotProduct / (mag1 * mag2); 0/0 is NaN.  |dotProduct| never exceeds
\* the integer part of mag1 * mag2, so a defined result lies in 0 .. 2*One.
calculateVectorDistance(vec1, vec2) ==
  LET dotProduct == Dot(vec1, vec2)
      sq1 == Dot(vec1, vec1)
      sq2 == Dot(vec2, vec2)
  IN  IF sq1 = 0 \/ sq2 = 0 THEN NaN
      ELSE Num(One - TruncDiv(One * dotProduct, Isqrt(sq1 * sq2)))

----------------------------------------------------------------------------
(* Population: initAgents, and the same construction in reset *)

AgentName(i) == <<"Agent-A", "Agent-B", "Agent-C", "Agent-D">>[i + 1]

\* One symbolMappings entry as created in initAgents and in reset.
NewMapping(vecDraws, confDraw) ==
  [vector |-> RandomVector(vecDraws),
   confidence |-> InitialConfidence(confDraw),
   usageCount |-> 0,
   lastUsed |-> 0]

\* The body of the per-agent construction shared by initAgents and reset:
\* pd holds the Math.random() draws.
NewAgentState(id, name, pd) ==
  [id |-> id,
   name |-> name,
   symbolMappings |->
     [s \in SymbolSet |-> NewMapping(pd.vec[id][s], pd.conf[id][s])],
   trustScores |-> [j \in (0 .. 3) \ {id} |-> InitialTrust],
   memory |-> <<>>,
   adaptability |-> InitialAdaptability(pd.adaptability[id]),
   convergenceSpeed |-> InitialConvergenceSpeed(pd.convergenceSpeed[id]),
   forgettingRate |-> InitialForgettingRate(pd.forgettingRate[id])]

initAgents(pd) == [i \in AgentIds |-> NewAgentState(i, AgentName(i), pd)]

----------------------------------------------------------------------------
(* simulateStep, first part of the setAgents updater: forgetting *)

\* Variant: the threshold test with >= in place of >.
IsStaleFromTwenty(m, st) == st - m.lastUsed >= ForgetAfter

\* if (step - mapping.lastUsed > 20)
IsStale(m, st) == st - m.lastUsed > ForgetAfter

\* mapping.confidence *= (1 - agent.forgettingRate)
Decay(confidence, forgettingRate) ==
  (confidence * (One - forgettingRate)) \div One

\* Variant: the pass without the staleness test.
ForgetMappingAlways(m, forgettingRate, st, rs) ==
  [m EXCEPT !.confidence = Decay(m.confidence, forgettingRate),
            !.vector = [i \in 1 .. Dim |-> m.vector[i] + Noise(rs[i], 1)]]

\* One mapping in the forgetting pass; rs are the three noise draws.
ForgetMapping(m, forgettingRate, st, rs) ==
  IF IsStale(m, st)
  THEN [m EXCEPT !.confidence = Decay(m.confidence, forgettingRate),
                 !.vector = [i \in 1 .. Dim |-> m.vector[i] + Noise(rs[i], 1)]]
  ELSE m

\* newAgents.forEach(agent => Object.keys(agent.symbolMappings).forEach(...))
Forgetting(ags, st, rs) ==
  [a \in DOMAIN ags |->
     [ags[a] EXCEPT !.symbolMappings =
        [s \in DOMAIN ags[a].symbolMappings |->
           ForgetMapping(ags[a].symbolMappings[s], ags[a].forgettingRate, st, rs)]]]

----------------------------------------------------------------------------
(* simulateStep, second part of the setAgents updater: the exchange *)

\* Math.random() < 0.8 ? 1 : 2
SequenceLength(r) == IF r < (8 * One) \div 10 THEN 1 ELSE 2

\* sequence.push(symbols[Math.floor(Math.random() * symbols.length)])
DrawSequence(lenDraw, symDraws) ==
  [i \in 1 .. SequenceLength(lenDraw) |->
     symbols[RandomIndex(symDraws[i], Len(symbols)) + 1]]

\* totalDistance over the sequence, from position i on
RECURSIVE TotalDistance(_, _, _, _, _)
TotalDistance(ags, sender, receiver, sequence, i) ==
  IF i > Len(sequence) THEN Num(0)
  ELSE FAdd(calculateVectorDistance(ags[sender].symbolMappings[sequence[i]].vector,
                                    ags[receiver].symbolMappings[sequence[i]].vector),
            TotalDistance(ags, sender, receiver, sequence, i + 1))

\* const avgDistance = totalDistance / sequence.length
AvgDistance(ags, sender, receiver, sequence) ==
  FDiv(TotalDistance(ags, sender, receiver, sequence, 1), Len(sequence))

\* const success = avgDistance < 0.5
IsSuccess(avgDistance) == FLt(avgDistance, One \div 2)

\* Variant: the increment without Math.min.
StrengthenUnclamped(confidence) == confidence + (5 * One) \div 100

\* Math.min(1, confidence + 0.05)
Strengthen(confidence) == Min(One, confidence + (5 * One) \div 100)

\* Variant: the increment with the wrong sign.
RaiseTrustLowered(trust) == Max(0, trust - (2 * One) \div 100)

\* Variant: the increment without Math.min.
RaiseTrustUnclamped(trust) == trust + (2 * One) \div 100

\* Math.min(1, trust + 0.02)
RaiseTrust(trust) == Min(One, trust + (2 * One) \div 100)

\* Variant: diff taken as receiver minus sender.
PullAway(rv, sv, convergenceSpeed) ==
  [i \in 1 .. Dim |-> rv[i] + TruncDiv((rv[i] - sv[i]) * convergenceSpeed, 10 * One)]

\* receiverMapping.vector[i] += diff * pullStrength * convergenceSpeed
Pull(rv, sv, convergenceSpeed) ==
  [i \in 1 .. Dim |-> rv[i] + TruncDiv((sv[i] - rv[i]) * convergenceSpeed, 10 * One)]

\* adaptability * trustWeight
AdaptationProbability(adaptability, trustWeight) ==
  (adaptability * trustWeight) \div One

\* Variant: the comparison with <= in place of <.
StrongRepairFiresAtEqual(repairDraw, probability) == repairDraw <= probability

\* if (Math.random() < adaptationProbability)
StrongRepairFires(repairDraw, probability) == repairDraw < probability

\* lastUsed = step; usageCount++
Touch(m, st) == [m EXCEPT !.lastUsed = st, !.usageCount = m.usageCount + 1]

\* Variant: a failure lowers the receiver's trust toward the sender by 0.02.
UpdateSymbolPenalizing(ags, st, sender, receiver, sym, success, repairDraw, noiseDraws) ==
  LET sm == Touch(ags[sender].symbolMappings[sym], st)
      rm == Touch(ags[receiver].symbolMappings[sym], st)
      trustWeight == ags[receiver].trustScores[sender]
      strong == StrongRepairFires(repairDraw,
                  AdaptationProbability(ags[receiver].adaptability, trustWeight))
      sm2 == IF success THEN [sm EXCEPT !.confidence = Strengthen(sm.confidence)] ELSE sm
      rm2 == IF success
             THEN [rm EXCEPT !.confidence = Strengthen(rm.confidence),
                             !.vector = Pull(rm.vector, sm.vector,
                                             ags[receiver].convergenceSpeed)]
             ELSE IF strong
             THEN [rm EXCEPT !.vector = [i \in 1 .. Dim |->
                                           sm.vector[i] + Noise(noiseDraws[i], 20)],
                             !.confidence = (3 * One) \div 10]
             ELSE [rm EXCEPT !.vector = [i \in 1 .. Dim |->
                                           rm.vector[i] + Noise(noiseDraws[i], 10)]]
  IN  [ags EXCEPT ![sender].symbolMappings[sym] = sm2,
                  ![receiver].symbolMappings[sym] = rm2,
                  ![receiver].trustScores[sender] =
                     IF success THEN RaiseTrust(trustWeight)
                     ELSE Max(0, trustWeight - (2 * One) \div 100)]

\* The body of the update loop for one symbol of the sequence.
UpdateSymbol(ags, st, sender, receiver, sym, success, repairDraw, noiseDraws) ==
  LET sm == Touch(ags[sender].symbolMappings[sym], st)
      rm == Touch(ags[receiver].symbolMappings[sym], st)
      trustWeight == ags[receiver].trustScores[sender]
      strong == StrongRepairFires(repairDraw,
                  AdaptationProbability(ags[receiver].adaptability, trustWeight))
      sm2 == IF success THEN [sm EXCEPT !.confidence = Strengthen(sm.confidence)] ELSE sm
      rm2 == IF success
             THEN [rm EXCEPT !.confidence = Strengthen(rm.confidence),
                             !.vector = Pull(rm.vector, sm.vector,
                                             ags[receiver].convergenceSpeed)]
             ELSE IF strong
             THEN [rm EXCEPT !.vector = [i \in 1 .. Dim |->
                                           sm.vector[i] + Noise(noiseDraws[i], 20)],
                             !.confidence = (3 * One) \div 10]
             ELSE [rm EXCEPT !.vector = [i \in 1 .. Dim |->
                                           rm.vector[i] + Noise(noiseDraws[i], 10)]]
  IN  [ags EXCEPT ![sender].symbolMappings[sym] = sm2,
                  ![receiver].symbolMappings[sym] = rm2,
                  ![receiver].trustScores[sender] =
                     IF success THEN RaiseTrust(trustWeight) ELSE trustWeight]

\* sequence.forEach(symbol => { ... }), from position i on
RECURSIVE UpdateSequence(_, _, _, _, _, _, _, _, _)
UpdateSequence(ags, st, sender, receiver, sequence, success, repairDraws, noiseDraws, i) ==
  IF i > Len(sequence) THEN ags
  ELSE UpdateSequence(
         UpdateSymbol(ags, st, sender, receiver, sequence[i], success,
                      repairDraws[i], noiseDraws[i]),
         st, sender, receiver, sequence, success, repairDraws, noiseDraws, i + 1)

\* Variant: pop() in place of shift().
PushMemoryPop(memory, entry) ==
  LET pushed == Append(memory, entry)
  IN  IF Len(pushed) > MemoryCap THEN SubSeq(pushed, 1, Len(pushed) - 1) ELSE pushed

\* memory.push(entry); if (memory.length > 50) memory.shift()
PushMemory(memory, entry) ==
  LET pushed == Append(memory, entry)
  IN  IF Len(pushed) > MemoryCap THEN Tail(pushed) ELSE pushed

\* prev.slice(-n), n > 0
SliceLast(seq, n) ==
  IF Len(seq) <= n THEN seq ELSE SubSeq(seq, Len(seq) - n + 1, Len(seq))

\* Variant: slice(-30) in place of slice(-29).
PushCommunicationOffByOne(prev, record) ==
  Append(SliceLast(prev, CommKeep + 1), record)

\* setCommunications(prev => [...prev.slice(-29), record])
PushCommunication(prev, record) == Append(SliceLast(prev, CommKeep), record)

\* Variant: the sample appended twice.
PushHistoryTwice(prev, sample) ==
  Append(Append(SliceLast(prev, HistoryKeep - 1), sample), sample)

\* setDriftHistory / setAlignmentHistory: [...prev.slice(-99), sample]
PushHistory(prev, sample) == Append(SliceLast(prev, HistoryKeep), sample)

\* Variant: the key built from the reversed sequence.
PatternKeyReversed(sequence) == sequence[2] \o "-" \o sequence[1]

\* sequence.join('-')
PatternKey(sequence) == sequence[1] \o "-" \o sequence[2]

\* newPatterns.set(pattern, (newPatterns.get(pattern) || 0) + 1)
CountPattern(prev, pattern) ==
  [k \in DOMAIN prev \cup {pattern} |->
     IF k = pattern
     THEN (IF pattern \in DOMAIN prev THEN prev[pattern] ELSE 0) + 1
     ELSE prev[k]]

\* The ids sampled for the round.
Sender(d) == RandomIndex(d.sender, NumAgents)
Receiver(d) == RandomIndex(d.receiver, NumAgents)

\* if (sender !== receiver)
RoundHappens(d) == Sender(d) # Receiver(d)

\* The Communication record of the round; ags is the state after forgetting.
CommunicationRecord(ags, st, d) ==
  LET sender == Sender(d)
      receiver == Receiver(d)
      sequence == DrawSequence(d.len, d.syms)
      avgDistance == AvgDistance(ags, sender, receiver, sequence)
  IN  [sender |-> sender,
       receiver |-> receiver,
       sequence |-> sequence,
       success |-> IsSuccess(avgDistance),
       step |-> st,
       distance |-> avgDistance,
       trustBefore |-> ags[receiver].trustScores[sender],
       sequenceLength |-> Len(sequence)]

\* Variant: the memory entries are pushed without the sender !== receiver
\* guard.
CommunicationRoundUnguarded(ags, st, d) ==
  LET sender == Sender(d)
      receiver == Receiver(d)
      sequence == DrawSequence(d.len, d.syms)
      success == IsSuccess(AvgDistance(ags, sender, receiver, sequence))
      updated == IF RoundHappens(d)
                 THEN UpdateSequence(ags, st, sender, receiver, sequence,
                                     success, d.repair, d.noise, 1)
                 ELSE ags
      sent == [updated EXCEPT
                 ![sender].memory =
                    PushMemory(@, [step |-> st, action |-> "sent",
                                   sequence |-> sequence, success |-> success,
                                   partner |-> receiver])]
  IN  [sent EXCEPT
         ![receiver].memory =
            PushMemory(@, [step |-> st, action |-> "received",
                           sequence |-> sequence, success |-> success,
                           partner |-> sender])]

\* The agents after the round; ags is the state after forgetting.
CommunicationRound(ags, st, d) ==
  IF ~RoundHappens(d) THEN ags
  ELSE LET c == CommunicationRecord(ags, st, d)
           updated == UpdateSequence(ags, st, c.sender, c.receiver, c.sequence,
                                     c.success, d.repair, d.noise, 1)
       IN  [updated EXCEPT
              ![c.sender].memory =
                 PushMemory(@, [step |-> st, action |-> "sent",
                                sequence |-> c.sequence, success |-> c.success,
                                partner |-> c.receiver]),
              ![c.receiver].memory =
                 PushMemory(@, [step |-> st, action |-> "received",
                                sequence |-> c.sequence, success |-> c.success,
                                partner |-> c.sender])]

\* The whole updater of simulateStep's setAgents.
StepUpdater(ags, st, d) == CommunicationRound(Forgetting(ags, st, d.forget), st, d)

----------------------------------------------------------------------------
(* triggerContextShift *)

shiftTypes == <<"symbol_redefinition", "new_agent", "task_change">>

\* Variant: the trigger without step > 0.
ShiftDueAtZero(st) == st % ShiftEvery = 0

\* if (step > 0 && step % 100 === 0)
ShiftDue(st) == st > 0 /\ st % ShiftEvery = 0

\* shiftTypes[Math.floor(Math.random() * shiftTypes.length)]
ShiftType(d) == shiftTypes[RandomIndex(d.shiftType, Len(shiftTypes)) + 1]

\* symbols[Math.floor(Math.random() * symbols.length)]
TargetSymbol(d) == symbols[RandomIndex(d.target, Len(symbols)) + 1]

\* Variant: the record carries the incremented step.
PushShiftNextStep(prev, st, d) ==
  Append(prev, [step |-> st + 1, type |-> ShiftType(d)])

\* setContextShifts(prev => [...prev, {step, type, id}])
PushShift(prev, st, d) == Append(prev, [step |-> st, type |-> ShiftType(d)])

\* Variant: the updater without the spread of agent.symbolMappings.
RedefineOnlyTarget(ags, targetSymbol, fresh) ==
  [a \in DOMAIN ags |->
     [ags[a] EXCEPT
        !.symbolMappings =
           [s \in {targetSymbol} |->
              [ags[a].symbolMappings[s] EXCEPT
                 !.vector = RandomVector(fresh[a]),
                 !.confidence = (3 * One) \div 10]]]]

\* The setAgents updater of a symbol_redefinition: prevAgents.map(...)
Redefine(ags, targetSymbol, fresh) ==
  [a \in DOMAIN ags |->
     [ags[a] EXCEPT !.symbolMappings[targetSymbol] =
        [@ EXCEPT !.vector = RandomVector(fresh[a]),
                  !.confidence = (3 * One) \div 10]]]

\* Variant: the redefinition applied before the step's own updater.
AgentsAfterTickShiftFirst(ags, st, d) ==
  IF ShiftDue(st) /\ ShiftType(d) = "symbol_redefinition"
  THEN StepUpdater(Redefine(ags, TargetSymbol(d), d.fresh), st, d)
  ELSE StepUpdater(ags, st, d)

\* The agents after both updaters queued by one tick, in queue order.
AgentsAfterTick(ags, st, d) ==
  LET stepped == StepUpdater(ags, st, d)
  IN  IF ShiftDue(st) /\ ShiftType(d) = "symbol_redefinition"
      THEN Redefine(stepped, TargetSymbol(d), d.fresh)
      ELSE stepped

----------------------------------------------------------------------------
(* calculateDriftMetrics *)

\* pairDrift for agents i and j, summed from symbol position k on
RECURSIVE PairDriftSum(_, _, _, _)
PairDriftSum(ags, i, j, k) ==
  IF k > Len(symbols) THEN Num(0)
  ELSE FAdd(calculateVectorDistance(ags[i].symbolMappings[symbols[k]].vector,
                                    ags[j].symbolMappings[symbols[k]].vector),
            PairDriftSum(ags, i, j, k + 1))

\* pairDrift /= symbols.length
PairDrift(ags, i, j) == FDiv(PairDriftSum(ags, i, j, 1), Len(symbols))

\* totalDrift over the pairs (i, j), i < j, from the pair (i, j) on
RECURSIVE TotalDrift(_, _, _, _)
TotalDrift(ags, n, i, j) ==
  IF i >= n THEN Num(0)
  ELSE IF j >= n THEN TotalDrift(ags, n, i + 1, i + 2)
  ELSE FAdd(PairDrift(ags, i, j), TotalDrift(ags, n, i, j + 1))

\* const avgDrift = comparisons > 0 ? totalDrift / comparisons : 0
AvgDrift(ags) ==
  LET n == Cardinality(DOMAIN ags)
      comparisons == (n * (n - 1)) \div 2
  IN  IF comparisons > 0 THEN FDiv(TotalDrift(ags, n, 0, 1), comparisons) ELSE Num(0)

\* Math.max(0, (1 - avgDrift) * 100); Math.max with NaN is NaN
Alignment(avgDrift) ==
  IF avgDrift.nan THEN NaN ELSE Num(Max(0, (One - avgDrift.val) * 100))

----------------------------------------------------------------------------
(* The component's state *)

VARIABLES
  isRunning,          \* useState(false)
  step,               \* useState(0)
  agents,             \* useState([]), filled by initAgents on mount
  communications,     \* useState([])
  driftHistory,       \* useState([])
  alignmentHistory,   \* useState([])
  syntaxPatterns,     \* useState(new Map())
  contextShifts,      \* useState([])
  last,               \* history: the last initAgents, tick or reset and what it read
  twin                \* history: a second, independent run (used by SpecTwin only)

vars == <<isRunning, step, agents, communications, driftHistory, alignmentHistory,
          syntaxPatterns, contextShifts, last, twin>>

\* The cells a tick writes.
data == <<step, agents, communications, driftHistory, alignmentHistory,
          syntaxPatterns, contextShifts>>

EmptyMap == [k \in {} |-> 0]

----------------------------------------------------------------------------
(* The cells one tick writes.  The interval callback is                     *)
(* setStep(prev => prev + 1); simulateStep(); st and ags are the step and  *)
(* the agents of the render that created the interval, d the draws.        *)

\* setCommunications, called in the setAgents updater after forgetting
TickCommunications(prev, ags, st, d) ==
  IF RoundHappens(d)
  THEN PushCommunication(prev, CommunicationRecord(Forgetting(ags, st, d.forget), st, d))
  ELSE prev

\* setSyntaxPatterns: if (sequence.length > 1)
TickPatterns(prev, d) ==
  IF RoundHappens(d) /\ Len(DrawSequence(d.len, d.syms)) > 1
  THEN CountPattern(prev, PatternKey(DrawSequence(d.len, d.syms)))
  ELSE prev

\* if (step > 0 && step % 100 === 0) triggerContextShift()
TickShifts(prev, st, d) == IF ShiftDue(st) THEN PushShift(prev, st, d) ELSE prev

\* calculateDriftMetrics reads the agents of the callback's closure.
DriftSample(ags, st) == [step |-> st, drift |-> AvgDrift(ags)]
AlignmentSample(driftSample) ==
  [step |-> driftSample.step, alignment |-> Alignment(driftSample.drift)]

----------------------------------------------------------------------------
(* The draws explored *)

\* The draw for which Math.random() - 0.5 is 0.
Mid == One \div 2
ZeroNoise == <<Mid, Mid, Mid>>

\* A draw that selects agent i / the k-th symbol / the k-th shift type.
AgentDraw(i) == (i * One) \div NumAgents
SymDraw(k) == ((k - 1) * One + 5) \div 6
ShiftDraw(k) == ((k - 1) * One + 2) \div 3

SymbolIndex(s) == CHOOSE k \in 1 .. Len(symbols) : symbols[k] = s

\* Vector draws a population is built from: (0.5,0,0), (0,0.5,0),
\* (0.5,0.5,0) and, by layout, (0,0,0) or (-0.5,0,0.5).
BaseDraws(l) ==
  << <<7500, 5000, 5000>>, <<5000, 7500, 5000>>, <<7500, 7500, 5000>>,
     IF l = 1 THEN <<5000, 5000, 5000>> ELSE <<2500, 5000, 7500>> >>

\* The Math.random() draws of one initAgents (or one reset): agents 0 and 1
\* draw equal vectors, as do agents 2 and 3.
PopulationDraws(l) ==
  [vec |-> [a \in AgentIds |-> [s \in SymbolSet |->
              BaseDraws(l)[(((a \div 2) + SymbolIndex(s)) % 4) + 1]]],
   conf |-> [a \in AgentIds |-> [s \in SymbolSet |->
              ((a + SymbolIndex(s)) % 2) * (One - 1)]],
   adaptability |-> [a \in AgentIds |-> (a % 2) * (One - 1)],
   convergenceSpeed |-> [a \in AgentIds |-> ((a \div 2) % 2) * (One - 1)],
   forgettingRate |-> [a \in AgentIds |-> ((a + 1) % 2) * (One - 1)]]

Populations == {PopulationDraws(l) : l \in {1, 2}}

\* Fresh vectors of a symbol_redefinition, one per agent.
FreshDraws == [a \in AgentIds |-> <<2500 + 5000 * (a % 2), 7500, 5000>>]

\* Draws of a tick in which sender and receiver coincide.
NoOpDraw ==
  [forget |-> ZeroNoise, sender |-> AgentDraw(1), receiver |-> AgentDraw(1),
   len |-> 0, syms |-> <<0, 0>>, repair |-> <<0, 0>>,
   noise |-> <<ZeroNoise, ZeroNoise>>,
   shiftType |-> 0, target |-> 0, fresh |-> FreshDraws]

WidePairs == {<<0, 1>>, <<2, 0>>}
WideSequences ==
  {<<0, <<SymDraw(1), SymDraw(1)>>>>, <<0, <<SymDraw(3), SymDraw(3)>>>>,
   <<0, <<SymDraw(4), SymDraw(4)>>>>, <<9000, <<SymDraw(1), SymDraw(4)>>>>,
   <<9000, <<SymDraw(4), SymDraw(4)>>>>}

\* The draws of a tick explored at every step of the short runs.
WideDraws ==
  {NoOpDraw} \cup
  {[NoOpDraw EXCEPT !.sender = AgentDraw(p[1]), !.receiver = AgentDraw(p[2]),
                    !.len = q[1], !.syms = q[2], !.repair = <<u, u>>,
                    !.noise = <<(<<0, One - 1, Mid>>), (<<0, One - 1, Mid>>)>>]
     : p \in WidePairs, q \in WideSequences, u \in {0, One - 1}}

\* The draws of the long runs: one script per step number ...
RoutineDraw(st) ==
  [forget |-> IF st % 2 = 0 THEN <<0, Mid, One - 1>> ELSE <<One - 1, Mid, 0>>,
   sender |-> IF st % 7 = 3 THEN AgentDraw(2)
              ELSE IF st % 2 = 0 THEN AgentDraw(0) ELSE AgentDraw(1),
   receiver |-> IF st % 7 = 3 THEN AgentDraw(2)
                ELSE IF st % 2 = 0 THEN AgentDraw(1) ELSE AgentDraw(0),
   len |-> IF st % 5 = 4 THEN 9000 ELSE 0,
   syms |-> <<IF st % 50 = 0 THEN SymDraw(6)
              ELSE IF st % 10 = 9 THEN SymDraw(2)
              ELSE IF st % 3 = 0 THEN SymDraw(3) ELSE SymDraw(1),
              IF st % 10 = 9 THEN SymDraw(1) ELSE SymDraw(2)>>,
   repair |-> IF st % 4 < 2 THEN <<0, 0>> ELSE <<One - 1, One - 1>>,
   noise |-> IF st % 2 = 0 THEN <<(<<0, Mid, One - 1>>), ZeroNoise>>
             ELSE <<(<<One - 1, Mid, 0>>), ZeroNoise>>,
   shiftType |-> ShiftDraw(((st \div ShiftEvery) % 3) + 1),
   target |-> SymDraw(1),
   fresh |-> FreshDraws]

\* ... except at the first context shift, where every kind and two targets
\* (one of them the symbol the step's exchange uses) are explored.
LongDraws(st) ==
  IF st = ShiftEvery
  THEN {[RoutineDraw(st) EXCEPT !.shiftType = ShiftDraw(t), !.target = SymDraw(g)]
          : t \in {1, 2, 3}, g \in {1, 6}}
  ELSE {RoutineDraw(st)}

\* Ticks explored per run.
MaxStep == 2
LongMaxStep == 502
TwinMaxStep == 1
RepairMaxStep == 2
EmptyMaxStep == 25

----------------------------------------------------------------------------
(* Initial state: after mount, initAgents has filled agents *)

NoTwin == [active |-> FALSE]

InitCells ==
  /\ isRunning = FALSE
  /\ step = 0
  /\ \E pd \in Populations : agents = initAgents(pd)
  /\ communications = <<>>
  /\ driftHistory = <<>>
  /\ alignmentHistory = <<>>
  /\ syntaxPatterns = EmptyMap
  /\ contextShifts = <<>>
  /\ last = [op |-> "init"]

Init == InitCells /\ twin = NoTwin

\* Two runs that start from the same population.
InitTwin ==
  /\ InitCells
  /\ twin = [active |-> TRUE, step |-> 0, agents |-> agents,
             communications |-> <<>>, driftHistory |-> <<>>,
             contextShifts |-> <<>>]

----------------------------------------------------------------------------
(* Operations *)

\* The Start/Pause button: onClick={() => setIsRunning(!isRunning)}
Start ==
  /\ ~isRunning
  /\ isRunning' = TRUE
  /\ last' = [op |-> "start"]
  /\ UNCHANGED <<data, twin>>

Pause ==
  /\ isRunning
  /\ isRunning' = FALSE
  /\ last' = [op |-> "pause"]
  /\ UNCHANGED <<data, twin>>

\* Variant: an interval that is never cleared.
TickArmedAlways == TRUE

\* The interval exists exactly while isRunning: the effect creates it when
\* isRunning and its cleanup clears it.
TickArmed == isRunning

\* One firing of the interval callback with the draws d.
Tick(d) ==
  /\ TickArmed
  /\ step' = step + 1
  /\ IF Cardinality(DOMAIN agents) = 0
     THEN UNCHANGED <<agents, communications, syntaxPatterns, contextShifts,
                      driftHistory, alignmentHistory>>
     ELSE /\ agents' = AgentsAfterTick(agents, step, d)
          /\ communications' = TickCommunications(communications, agents, step, d)
          /\ syntaxPatterns' = TickPatterns(syntaxPatterns, d)
          /\ contextShifts' = TickShifts(contextShifts, step, d)
          /\ driftHistory' = PushHistory(driftHistory, DriftSample(agents, step))
          /\ alignmentHistory' =
               PushHistory(alignmentHistory,
                           AlignmentSample(driftHistory'[Len(driftHistory')]))
  /\ last' = [op |-> "tick", step |-> step, draw |-> d, before |-> agents]
  /\ UNCHANGED <<isRunning, twin>>

\* Variant: a reset that spreads the agent and forgets memory: [].
ResetAgentsKeepMemory(ags, pd) ==
  [a \in DOMAIN ags |->
     [NewAgentState(ags[a].id, ags[a].name, pd) EXCEPT !.memory = ags[a].memory]]

\* agents.map(agent => ({...agent, symbolMappings, trustScores, memory: [], ...}))
ResetAgents(ags, pd) ==
  [a \in DOMAIN ags |-> NewAgentState(ags[a].id, ags[a].name, pd)]

\* Variant: a reset without setSyntaxPatterns({}).
ResetKeepsPatterns ==
  /\ isRunning' = FALSE
  /\ step' = 0
  /\ communications' = <<>>
  /\ driftHistory' = <<>>
  /\ alignmentHistory' = <<>>
  /\ contextShifts' = <<>>
  /\ \E pd \in Populations : agents' = ResetAgents(agents, pd)
  /\ last' = [op |-> "reset", wasRunning |-> isRunning, fromStep |-> step]
  /\ UNCHANGED <<syntaxPatterns, twin>>

\* The Reset button.
Reset ==
  /\ isRunning' = FALSE
  /\ step' = 0
  /\ communications' = <<>>
  /\ driftHistory' = <<>>
  /\ alignmentHistory' = <<>>
  /\ syntaxPatterns' = EmptyMap
  /\ contextShifts' = <<>>
  /\ \E pd \in Populations : agents' = ResetAgents(agents, pd)
  /\ last' = [op |-> "reset", wasRunning |-> isRunning, fromStep |-> step]
  /\ UNCHANGED twin

TickShort == step < MaxStep /\ \E d \in WideDraws : Tick(d)
TickLong == step < LongMaxStep /\ \E d \in LongDraws(step) : Tick(d)

Next == Start \/ Pause \/ Reset \/ TickShort
Spec == Init /\ [][Next]_vars

NextLong == Start \/ Pause \/ Reset \/ TickLong
SpecLong == Init /\ [][NextLong]_vars

\* A tick of the second run: the same callback on its own cells, with
\* draws of its own (Math.random() takes no seed).
TwinTick ==
  /\ twin.active
  /\ twin.step < TwinMaxStep
  /\ \E d \in WideDraws :
       twin' = [twin EXCEPT
                  !.step = @ + 1,
                  !.agents = AgentsAfterTick(twin.agents, twin.step, d),
                  !.communications =
                     TickCommunications(@, twin.agents, twin.step, d),
                  !.driftHistory =
                     PushHistory(@, DriftSample(twin.agents, twin.step)),
                  !.contextShifts = TickShifts(@, twin.step, d)]
  /\ UNCHANGED <<isRunning, data, last>>

TickTwin == step < TwinMaxStep /\ \E d \in WideDraws : Tick(d)

NextTwin == Start \/ Pause \/ TickTwin \/ TwinTick
SpecTwin == InitTwin /\ [][NextTwin]_vars

\* The repair scenario: a population whose agents have adaptability 0 and
\* the given trust toward every peer, the inputs of lines 172-173.
RepairScenario(ags, trust) ==
  [a \in DOMAIN ags |->
     [ags[a] EXCEPT !.adaptability = 0,
                    !.trustScores = [p \in DOMAIN ags[a].trustScores |-> trust]]]

InitRepair ==
  /\ isRunning = FALSE
  /\ step = 0
  /\ \E pd \in Populations : agents = RepairScenario(initAgents(pd), One)
  /\ communications = <<>>
  /\ driftHistory = <<>>
  /\ alignmentHistory = <<>>
  /\ syntaxPatterns = EmptyMap
  /\ contextShifts = <<>>
  /\ last = [op |-> "init"]
  /\ twin = NoTwin

TickRepair == step < RepairMaxStep /\ \E d \in WideDraws : Tick(d)

NextRepair == Start \/ Pause \/ TickRepair
SpecRepair == InitRepair /\ [][NextRepair]_vars

\* The component as constructed, before the mount effect has filled agents:
\* useState([]) and the other initial cells.
InitEmpty ==
  /\ isRunning = FALSE
  /\ step = 0
  /\ agents = EmptyMap
  /\ communications = <<>>
  /\ driftHistory = <<>>
  /\ alignmentHistory = <<>>
  /\ syntaxPatterns = EmptyMap
  /\ contextShifts = <<>>
  /\ last = [op |-> "init"]
  /\ twin = NoTwin

TickEmpty ==
  /\ step < EmptyMaxStep
  /\ \E d \in {NoOpDraw, RoutineDraw(step)} : Tick(d)

\* The engine on a population of zero agents.
NextEmpty == Start \/ Pause \/ Reset \/ TickEmpty
SpecEmpty == InitEmpty /\ [][NextEmpty]_vars

----------------------------------------------------------------------------
(* Properties *)

ShiftKinds == {"symbol_redefinition", "new_agent", "task_change"}

\* The step numbers of a log, in order.
StepsOf(log) == [i \in 1 .. Len(log) |-> log[i].step]

\* The symbols of the sequence the last tick drew.
LastSequenceSymbols ==
  LET sequence == DrawSequence(last.draw.len, last.draw.syms)
  IN  {sequence[i] : i \in 1 .. Len(sequence)}

(* C1: after any sequence of start, pause, tick and reset, every agent's   *)
(* memory holds at most 50 entries, the communication log at most 30       *)
(* records, and the drift and alignment histories at most 100 samples each.*)
C1_Capacities ==
  /\ \A a \in DOMAIN agents : Len(agents[a].memory) <= 50
  /\ Len(communications) <= 30
  /\ Len(driftHistory) <= 100
  /\ Len(alignmentHistory) <= 100

\* Every log is full and has already evicted its oldest entries.
C1_Witness ==
  /\ \E a \in DOMAIN agents :
       Len(agents[a].memory) = 50 /\ agents[a].memory[1].step > 1
  /\ Len(communications) = 30 /\ communications[1].step > 0
  /\ Len(driftHistory) = 100 /\ driftHistory[1].step > 0
  /\ Len(alignmentHistory) = 100 /\ alignmentHistory[1].step > 0

(* C2: for every agent, symbol and peer, confidence and trust stay within  *)
(* [0,1] after any number of steps, whatever mix of successes, failures    *)
(* (strong or weak repair), forgetting, context shifts and resets occurred.*)
C2_UnitInterval ==
  \A a \in DOMAIN agents :
    /\ \A s \in SymbolSet :
         /\ agents[a].symbolMappings[s].confidence >= 0
         /\ agents[a].symbolMappings[s].confidence <= One
    /\ \A p \in DOMAIN agents[a].trustScores :
         /\ agents[a].trustScores[p] >= 0
         /\ agents[a].trustScores[p] <= One

\* After a context shift: a confidence and a trust clamped at 1, a confidence
\* decayed below its initial range, and a failed exchange in memory.
C2_Witness ==
  /\ Len(contextShifts) > 0
  /\ \E a \in DOMAIN agents : \E s \in SymbolSet :
       agents[a].symbolMappings[s].confidence = One
  /\ \E a \in DOMAIN agents : \E p \in DOMAIN agents[a].trustScores :
       agents[a].trustScores[p] = One
  /\ \E a \in DOMAIN agents : \E s \in SymbolSet :
       agents[a].symbolMappings[s].confidence < (3 * One) \div 10
  /\ \E a \in DOMAIN agents : \E i \in 1 .. Len(agents[a].memory) :
       ~agents[a].memory[i].success

(* C3, as stated: after exactly 500 steps from a fresh simulation the      *)
(* ContextShift log holds exactly 5 records, with steps 100, 200, 300, 400 *)
(* and 500, each of kind symbol_redefinition, new_agent or task_change.    *)
C3_Original ==
  step = 500 =>
    /\ StepsOf(contextShifts) = <<100, 200, 300, 400, 500>>
    /\ \A i \in 1 .. Len(contextShifts) : contextShifts[i].type \in ShiftKinds

(* C3, amended: after exactly 500 steps the log holds exactly 4 records,   *)
(* with steps 100, 200, 300 and 400; the record with step 500 is appended  *)
(* by the 501st step.  Every record's kind is one of the three.            *)
C3_Amended ==
  /\ step = 500 => StepsOf(contextShifts) = <<100, 200, 300, 400>>
  /\ step = 501 => StepsOf(contextShifts) = <<100, 200, 300, 400, 500>>
  /\ \A i \in 1 .. Len(contextShifts) : contextShifts[i].type \in ShiftKinds

C3_Witness == step = 501 /\ Len(contextShifts) = 5

(* C4: the engine is idle or running; start moves idle to running, pause   *)
(* moves running to idle, and while idle no step is applied: the step      *)
(* counter, the agents and every log stay unchanged until the next start   *)
(* or reset, so no tick takes effect after a pause.                        *)
C4_IdleRunning ==
  /\ [](isRunning \in BOOLEAN)
  /\ [][/\ ~isRunning => (UNCHANGED data \/ last'.op = "reset")
        /\ (~isRunning /\ isRunning') => (last'.op = "start" /\ UNCHANGED data)
        /\ (isRunning /\ ~isRunning') =>
              ((last'.op = "pause" /\ UNCHANGED data) \/ last'.op = "reset")]_vars

\* Paused after steps were applied.
C4_Witness == ~isRunning /\ last.op = "pause" /\ step > 0 /\ Len(communications) > 0

(* C5: reset is accepted idle or running and leaves the engine idle with   *)
(* the step counter at 0 and the communication log, both histories, the    *)
(* ContextShift log and the SyntaxPattern table empty; after it nothing is *)
(* written until the next start or reset.                                  *)
C5_Reset ==
  /\ [](last.op = "reset" =>
          /\ ~isRunning
          /\ step = 0
          /\ communications = <<>>
          /\ driftHistory = <<>>
          /\ alignmentHistory = <<>>
          /\ contextShifts = <<>>
          /\ DOMAIN syntaxPatterns = {})
  /\ [][last.op = "reset" => last'.op \in {"start", "reset"}]_vars

\* A reset issued while running, after steps.
C5_Witness == last.op = "reset" /\ last.wasRunning /\ last.fromStep > 1

(* C6: reset keeps every agent's id and name and the number of agents, and *)
(* discards all learned state: empty memory, trust exactly 0.5 toward every*)
(* other agent, and per symbol usageCount 0, lastUsed 0 and a confidence   *)
(* in [0.3, 0.7).                                                          *)
C6_ResetAgents ==
  [][last'.op = "reset" =>
       /\ DOMAIN agents' = DOMAIN agents
       /\ \A a \in DOMAIN agents :
            /\ agents'[a].id = agents[a].id
            /\ agents'[a].name = agents[a].name
            /\ agents'[a].memory = <<>>
            /\ DOMAIN agents'[a].trustScores = DOMAIN agents \ {a}
            /\ \A p \in DOMAIN agents'[a].trustScores :
                 agents'[a].trustScores[p] = One \div 2
            /\ DOMAIN agents'[a].symbolMappings = SymbolSet
            /\ \A s \in SymbolSet :
                 /\ agents'[a].symbolMappings[s].usageCount = 0
                 /\ agents'[a].symbolMappings[s].lastUsed = 0
                 /\ agents'[a].symbolMappings[s].confidence >= (3 * One) \div 10
                 /\ agents'[a].symbolMappings[s].confidence < (7 * One) \div 10]_vars

\* The state right after a reset that followed exchanges.
C6_Witness == last.op = "reset" /\ last.fromStep > 0 /\ ~last.wasRunning

(* C7: two independent runs initialized alike and advanced by the same     *)
(* number of steps produce identical Communication, DriftSample and        *)
(* ContextShift sequences.                                                 *)
C7_Deterministic ==
  (twin.active /\ twin.step = step) =>
    /\ twin.communications = communications
    /\ twin.driftHistory = driftHistory
    /\ twin.contextShifts = contextShifts

(* C8: the forgetting pass changes the confidence or vector of an (agent,  *)
(* symbol) meaning only when step - lastUsed > 20; a meaning with          *)
(* step - lastUsed <= 20 keeps both, and the pass never changes usageCount,*)
(* lastUsed, trust or memory.                                              *)
C8_ForgettingFrame ==
  last.op = "tick" =>
    LET before == last.before
        after == Forgetting(before, last.step, last.draw.forget)
    IN  /\ DOMAIN after = DOMAIN before
        /\ \A a \in DOMAIN before :
             /\ after[a].trustScores = before[a].trustScores
             /\ after[a].memory = before[a].memory
             /\ \A s \in SymbolSet :
                  /\ after[a].symbolMappings[s].usageCount =
                       before[a].symbolMappings[s].usageCount
                  /\ after[a].symbolMappings[s].lastUsed =
                       before[a].symbolMappings[s].lastUsed
                  /\ last.step - before[a].symbolMappings[s].lastUsed <= 20 =>
                       /\ after[a].symbolMappings[s].confidence =
                            before[a].symbolMappings[s].confidence
                       /\ after[a].symbolMappings[s].vector =
                            before[a].symbolMappings[s].vector

\* A pass that met a meaning exactly 20 steps old, which it kept, and an
\* older one, which it changed.
C8_Witness ==
  /\ last.op = "tick"
  /\ LET before == last.before
         after == Forgetting(before, last.step, last.draw.forget)
     IN  /\ \E a \in DOMAIN before : \E s \in SymbolSet :
              /\ before[a].symbolMappings[s].lastUsed > 0
              /\ last.step - before[a].symbolMappings[s].lastUsed = 20
         /\ \E a \in DOMAIN before : \E s \in SymbolSet :
              /\ last.step - before[a].symbolMappings[s].lastUsed > 20
              /\ after[a].symbolMappings[s].vector # before[a].symbolMappings[s].vector
              /\ after[a].symbolMappings[s].confidence <
                   before[a].symbolMappings[s].confidence

(* C9: when a step applies a symbol_redefinition, exactly one symbol is    *)
(* targeted and, once the step is complete, that symbol's confidence is    *)
(* exactly 0.3 and its vector is the fresh draw for every agent, also for  *)
(* the agents that used that symbol in the same step's exchange; every     *)
(* other meaning is as the step's exchange left it.                        *)
C9_Redefinition ==
  (/\ last.op = "tick"
   /\ ShiftDue(last.step)
   /\ ShiftType(last.draw) = "symbol_redefinition") =>
    LET target == TargetSymbol(last.draw)
        stepped == StepUpdater(last.before, last.step, last.draw)
    IN  \A a \in DOMAIN agents :
          /\ agents[a].symbolMappings[target].confidence = (3 * One) \div 10
          /\ agents[a].symbolMappings[target].vector =
               RandomVector(last.draw.fresh[a])
          /\ \A s \in SymbolSet \ {target} :
               agents[a].symbolMappings[s] = stepped[a].symbolMappings[s]

\* A redefinition of the symbol that the same step's exchange used.
C9_Witness ==
  /\ last.op = "tick"
  /\ ShiftDue(last.step)
  /\ ShiftType(last.draw) = "symbol_redefinition"
  /\ RoundHappens(last.draw)
  /\ TargetSymbol(last.draw) \in LastSequenceSymbols
  /\ agents[Sender(last.draw)].symbolMappings[TargetSymbol(last.draw)].lastUsed
       = last.step

(* C10: every Communication record has success = true exactly when its     *)
(* recorded average distance is strictly below 0.5; and an exchange that   *)
(* uses only a symbol whose sender and receiver vectors are identical      *)
(* records avgDistance 0 and success true.                                 *)
C10_Outcome ==
  /\ \A i \in 1 .. Len(communications) :
       communications[i].success <=> FLt(communications[i].distance, One \div 2)
  /\ (/\ last.op = "tick"
      /\ RoundHappens(last.draw)
      /\ \A s \in LastSequenceSymbols :
           LET forgot == Forgetting(last.before, last.step, last.draw.forget)
           IN  forgot[Sender(last.draw)].symbolMappings[s].vector =
                 forgot[Receiver(last.draw)].symbolMappings[s].vector) =>
       /\ communications[Len(communications)].distance = Num(0)
       /\ communications[Len(communications)].success

\* The agents the last tick's exchange started from: after its forgetting pass.
BeforeExchange == Forgetting(last.before, last.step, last.draw.forget)

\* The last tick ran an exchange and no redefinition, so that agents is the
\* result of the exchange.
ExchangeTick ==
  /\ last.op = "tick"
  /\ RoundHappens(last.draw)
  /\ ~ShiftDue(last.step)

LastSequence == DrawSequence(last.draw.len, last.draw.syms)
LastRecord == communications[Len(communications)]

\* How often the symbol s occurs in the sequence.
Occurrences(sequence, s) ==
  Cardinality({i \in 1 .. Len(sequence) : sequence[i] = s})

\* 0.05 in vector units.
WeakStep == VOne \div 20

(* C11, as stated: in a failing exchange whose receiver has adaptability 0 *)
(* the strong repair never fires: the receiver's confidence is unchanged   *)
(* and every component of every vector of the receiver differs from its    *)
(* value before the exchange by at most 0.05, for every sequence (length 1 *)
(* or 2, symbols drawn with replacement).                                  *)
C11_Original ==
  (/\ ExchangeTick
   /\ ~LastRecord.success
   /\ last.before[Receiver(last.draw)].adaptability = 0) =>
    \A s \in SymbolSet :
      LET was == BeforeExchange[Receiver(last.draw)].symbolMappings[s]
          now == agents[Receiver(last.draw)].symbolMappings[s]
      IN  /\ now.confidence = was.confidence
          /\ \A i \in 1 .. Dim : Abs(now.vector[i] - was.vector[i]) <= WeakStep

(* C11, amended: in a failing exchange whose receiver has adaptability 0   *)
(* the strong repair never fires: the receiver's confidence is unchanged   *)
(* and every component of a vector of the receiver differs from its value  *)
(* before the exchange by at most 0.05 per occurrence of the symbol in the *)
(* sequence: 0 for a symbol not used, 0.05 for one used once, 0.1 for a    *)
(* symbol drawn twice.                                                     *)
C11_WeakRepair ==
  (/\ ExchangeTick
   /\ ~LastRecord.success
   /\ last.before[Receiver(last.draw)].adaptability = 0) =>
    \A s \in SymbolSet :
      LET was == BeforeExchange[Receiver(last.draw)].symbolMappings[s]
          now == agents[Receiver(last.draw)].symbolMappings[s]
      IN  /\ now.confidence = was.confidence
          /\ \A i \in 1 .. Dim :
               Abs(now.vector[i] - was.vector[i])
                 <= WeakStep * Occurrences(LastSequence, s)

\* A failing exchange with the smallest repair draw, a receiver of
\* adaptability 0 and trust 1, and a symbol drawn twice whose vector moved by
\* 0.1 in one component.
C11_Witness ==
  /\ ExchangeTick
  /\ ~LastRecord.success
  /\ last.before[Receiver(last.draw)].adaptability = 0
  /\ last.before[Receiver(last.draw)].trustScores[Sender(last.draw)] = One
  /\ last.draw.repair = <<0, 0>>
  /\ \E s \in SymbolSet :
       /\ Occurrences(LastSequence, s) = 2
       /\ \E i \in 1 .. Dim :
            Abs(agents[Receiver(last.draw)].symbolMappings[s].vector[i]
                - BeforeExchange[Receiver(last.draw)].symbolMappings[s].vector[i])
              = 2 * WeakStep

C13_EmptyPopulation ==
  (last.op = "tick" /\ DOMAIN last.before = {}) =>
    /\ step = last.step + 1
    /\ DOMAIN agents = {}
    /\ communications = <<>>
    /\ contextShifts = <<>>
    /\ DOMAIN syntaxPatterns = {}
    /\ Len(driftHistory) > 0
    /\ driftHistory[Len(driftHistory)] = [step |-> last.step, drift |-> Num(0)]
    /\ Len(alignmentHistory) > 0
    /\ alignmentHistory[Len(alignmentHistory)] =
         [step |-> last.step, alignment |-> Num(100 * One)]

\* The vector has zero magnitude.
IsZeroVector(v) == \A i \in 1 .. Dim : v[i] = 0

\* The last tick's exchange used a symbol for which the sender or the
\* receiver held a zero-magnitude vector.
ZeroVectorExchange ==
  /\ ExchangeTick
  /\ \E s \in LastSequenceSymbols :
       \/ IsZeroVector(BeforeExchange[Sender(last.draw)].symbolMappings[s].vector)
       \/ IsZeroVector(BeforeExchange[Receiver(last.draw)].symbolMappings[s].vector)

(* C14: distance applied to a zero-magnitude vector gives a defined value  *)
(* (maximal distance 2), never NaN: every recorded distance is a number in *)
(* [0,2], an exchange over a zero-magnitude vector is recorded as a failure*)
(* with a defined distance, and every drift sample is a number in [0,2]    *)
(* and every alignment sample a number in [0,100].                         *)
C14_DefinedDistance ==
  /\ \A i \in 1 .. Len(communications) :
       /\ ~communications[i].distance.nan
       /\ communications[i].distance.val >= 0
       /\ communications[i].distance.val <= 2 * One
  /\ ZeroVectorExchange =>
       (~LastRecord.success /\ ~LastRecord.distance.nan)
  /\ \A i \in 1 .. Len(driftHistory) :
       /\ ~driftHistory[i].drift.nan
       /\ driftHistory[i].drift.val >= 0
       /\ driftHistory[i].drift.val <= 2 * One
  /\ \A i \in 1 .. Len(alignmentHistory) :
       /\ ~alignmentHistory[i].alignment.nan
       /\ alignmentHistory[i].alignment.val >= 0
       /\ alignmentHistory[i].alignment.val <= 100 * One

(* C15: within one tick the effects are applied in the order forgetting,   *)
(* communication round, conditional context shift, metrics update, step    *)
(* increment: the drift and alignment samples a tick appends are computed  *)
(* from the agent state that results from that same tick, and every record *)
(* the tick writes carries the step number as it was before the increment. *)
C15_TickOrder ==
  (last.op = "tick" /\ DOMAIN last.before # {}) =>
    /\ step = last.step + 1
    /\ driftHistory[Len(driftHistory)] =
         [step |-> last.step, drift |-> AvgDrift(agents)]
    /\ alignmentHistory[Len(alignmentHistory)] =
         [step |-> last.step, alignment |-> Alignment(AvgDrift(agents))]
    /\ RoundHappens(last.draw) => LastRecord.step = last.step
    /\ ShiftDue(last.step) => contextShifts[Len(contextShifts)].step = last.step

\* log2 is log1 with exactly one entry appended, after evicting the oldest
\* entry if log1 held cap entries.
AppendedOne(log1, log2, cap) ==
  /\ Len(log2) > 0
  /\ log2 = Append(IF Len(log1) >= cap THEN Tail(log1) ELSE log1, log2[Len(log2)])

\* The usage bookkeeping and trust of every agent, and the memories.
Bookkeeping(ags) ==
  [a \in DOMAIN ags |->
     [usage |-> [s \in SymbolSet |->
                   <<ags[a].symbolMappings[s].usageCount,
                     ags[a].symbolMappings[s].lastUsed>>],
      trust |-> ags[a].trustScores,
      memory |-> ags[a].memory]]

(* C16: every tick applied while running increases the step counter by     *)
(* exactly 1 and appends exactly one drift sample and exactly one alignment*)
(* sample; no step number is used by two ticks: the step numbers of        *)
(* consecutive samples in each history differ by exactly 1 between resets. *)
C16_OneStepPerTick ==
  /\ [][last'.op = "tick" =>
          /\ isRunning
          /\ step' = step + 1
          /\ AppendedOne(driftHistory, driftHistory', 100)
          /\ AppendedOne(alignmentHistory, alignmentHistory', 100)
          /\ driftHistory'[Len(driftHistory')].step = step
          /\ alignmentHistory'[Len(alignmentHistory')].step = step]_vars
  /\ [](/\ \A i \in 1 .. Len(driftHistory) - 1 :
             driftHistory[i + 1].step = driftHistory[i].step + 1
        /\ \A i \in 1 .. Len(alignmentHistory) - 1 :
             alignmentHistory[i + 1].step = alignmentHistory[i].step + 1)

\* A tick on full histories, after the first context shift.
C16_Witness ==
  /\ last.op = "tick"
  /\ last.step > 100
  /\ Len(driftHistory) = 100
  /\ Len(alignmentHistory) = 100
  /\ driftHistory[1].step = last.step - 99

(* C17: in a step where the sampled sender and receiver coincide, no       *)
(* Communication record is appended, no SyntaxPattern count changes, no    *)
(* memory entry is added and no trust value, usageCount or lastUsed        *)
(* changes; the step still appends its drift and alignment sample and      *)
(* advances the step counter.                                              *)
C17_NoOpRound ==
  [][(last'.op = "tick" /\ ~RoundHappens(last'.draw)) =>
       /\ communications' = communications
       /\ syntaxPatterns' = syntaxPatterns
       /\ Bookkeeping(agents') = Bookkeeping(agents)
       /\ AppendedOne(driftHistory, driftHistory', 100)
       /\ AppendedOne(alignmentHistory, alignmentHistory', 100)
       /\ step' = step + 1]_vars

\* A no-op round after exchanges, in a step whose forgetting pass still
\* changed a meaning.
C17_Witness ==
  /\ last.op = "tick"
  /\ ~RoundHappens(last.draw)
  /\ Len(communications) > 0
  /\ \E a \in DOMAIN agents : Len(agents[a].memory) > 0
  /\ agents # last.before

(* C18: each bounded log (agent memory, communication log, drift history,  *)
(* alignment history) evicts in FIFO order: appending to a log at capacity *)
(* yields the previous contents without their oldest entry followed by the *)
(* new entry as the last element; the newest entry is never dropped and    *)
(* the order of the surviving entries is preserved.                        *)
C18_Fifo ==
  [][last'.op = "tick" =>
       /\ AppendedOne(driftHistory, driftHistory', 100)
       /\ driftHistory'[Len(driftHistory')].step = step
       /\ AppendedOne(alignmentHistory, alignmentHistory', 100)
       /\ alignmentHistory'[Len(alignmentHistory')].step = step
       /\ RoundHappens(last'.draw) =>
            /\ AppendedOne(communications, communications', 30)
            /\ communications'[Len(communications')].step = step
            /\ \A a \in {Sender(last'.draw), Receiver(last'.draw)} :
                 /\ AppendedOne(agents[a].memory, agents'[a].memory, 50)
                 /\ agents'[a].memory[Len(agents'[a].memory)].step = step]_vars

\* A tick with an exchange that found all four kinds of log at capacity.
C18_Witness ==
  /\ last.op = "tick"
  /\ RoundHappens(last.draw)
  /\ Len(last.before[Sender(last.draw)].memory) = 50
  /\ Len(last.before[Receiver(last.draw)].memory) = 50
  /\ Len(communications) = 30
  /\ communications[1].step > 1
  /\ Len(driftHistory) = 100
  /\ Len(alignmentHistory) = 100
  /\ driftHistory[1].step > 1

(* C19: a tick appends a ContextShift record exactly when its step number  *)
(* is greater than 0 and divisible by 100: every record in the log has a   *)
(* step that is a positive multiple of 100 and a kind in                   *)
(* {symbol_redefinition, new_agent, task_change}, the log holds at most one*)
(* record per step number, and records appear in increasing step order.    *)
C19_ShiftSchedule ==
  /\ [][last'.op = "tick" =>
          IF step > 0 /\ step % 100 = 0
          THEN /\ Len(contextShifts') = Len(contextShifts) + 1
               /\ SubSeq(contextShifts', 1, Len(contextShifts)) = contextShifts
               /\ contextShifts'[Len(contextShifts')].step = step
          ELSE contextShifts' = contextShifts]_vars
  /\ [](/\ \A i \in 1 .. Len(contextShifts) :
             /\ contextShifts[i].step > 0
             /\ contextShifts[i].step % 100 = 0
             /\ contextShifts[i].type \in ShiftKinds
        /\ \A i \in 1 .. Len(contextShifts) - 1 :
             contextShifts[i].step < contextShifts[i + 1].step)

\* Five shifts recorded, of all three kinds.
C19_Witness ==
  /\ Len(contextShifts) = 5
  /\ {contextShifts[i].type : i \in 1 .. Len(contextShifts)} = ShiftKinds
  /\ last.op = "tick"
  /\ last.step = 500

\* The last tick's failed exchange took the strong repair for its first symbol.
StrongRepairTaken ==
  StrongRepairFires(
    last.draw.repair[1],
    AdaptationProbability(
      BeforeExchange[Receiver(last.draw)].adaptability,
      BeforeExchange[Receiver(last.draw)].trustScores[Sender(last.draw)]))

(* C20: a failed exchange changes no trust value of any agent and changes  *)
(* nothing of the sender except the usage bookkeeping (lastUsed,           *)
(* usageCount) of the symbols in the sequence and its memory entry: the    *)
(* sender's vectors and confidences are the same before and after, under   *)
(* both strong and weak repair.                                            *)
C20_FailureFrame ==
  (ExchangeTick /\ ~LastRecord.success) =>
    LET was == BeforeExchange[Sender(last.draw)]
        now == agents[Sender(last.draw)]
    IN  /\ \A a \in DOMAIN agents :
             agents[a].trustScores = BeforeExchange[a].trustScores
        /\ \A s \in SymbolSet :
             /\ now.symbolMappings[s].vector = was.symbolMappings[s].vector
             /\ now.symbolMappings[s].confidence = was.symbolMappings[s].confidence
             /\ s \notin LastSequenceSymbols =>
                  now.symbolMappings[s] = was.symbolMappings[s]
        /\ [now EXCEPT !.symbolMappings = was.symbolMappings,
                        !.memory = was.memory] = was

\* A failed exchange repaired strongly: the receiver's vector and confidence
\* changed, the sender's usage bookkeeping and memory were written.
C20_Witness ==
  /\ ExchangeTick
  /\ ~LastRecord.success
  /\ StrongRepairTaken
  /\ agents[Receiver(last.draw)].symbolMappings[LastSequence[1]].vector
       # BeforeExchange[Receiver(last.draw)].symbolMappings[LastSequence[1]].vector
  /\ agents[Sender(last.draw)].symbolMappings[LastSequence[1]].lastUsed = last.step
  /\ agents[Sender(last.draw)].symbolMappings[LastSequence[1]].usageCount > 1
  /\ Len(agents[Sender(last.draw)].memory) > 1

\* The same under weak repair.
C20_WitnessWeak ==
  /\ ExchangeTick
  /\ ~LastRecord.success
  /\ ~StrongRepairTaken
  /\ agents[Receiver(last.draw)].symbolMappings[LastSequence[1]].vector
       # BeforeExchange[Receiver(last.draw)].symbolMappings[LastSequence[1]].vector

\* 0.02 in scalar units.
TrustStep == (2 * One) \div 100

\* Every trust entry except the receiver's toward the sender is as it was
\* before the exchange.
OtherTrustUnchanged ==
  \A a \in DOMAIN agents : \A p \in DOMAIN agents[a].trustScores :
    (a # Receiver(last.draw) \/ p # Sender(last.draw)) =>
      agents[a].trustScores[p] = BeforeExchange[a].trustScores[p]

(* C21, as stated: a successful exchange increases the receiver's trust    *)
(* toward the sender by 0.02, clamped to 1.0, whatever the length of the   *)
(* sequence, and changes no other trust entry.                             *)
C21_Original ==
  (ExchangeTick /\ LastRecord.success) =>
    /\ agents[Receiver(last.draw)].trustScores[Sender(last.draw)] =
         Min(One, BeforeExchange[Receiver(last.draw)].trustScores[Sender(last.draw)]
                  + TrustStep)
    /\ OtherTrustUnchanged

(* C21, amended: a successful exchange increases the receiver's trust      *)
(* toward the sender by 0.02 per symbol of the sequence (0.02 for length 1,*)
(* 0.04 for length 2), clamped to 1.0, and changes no other trust entry.   *)
C21_TrustPerSymbol ==
  (ExchangeTick /\ LastRecord.success) =>
    /\ agents[Receiver(last.draw)].trustScores[Sender(last.draw)] =
         Min(One, BeforeExchange[Receiver(last.draw)].trustScores[Sender(last.draw)]
                  + TrustStep * Len(LastSequence))
    /\ OtherTrustUnchanged

\* A successful exchange of length 2 that raised the trust by 0.04.
C21_Witness ==
  /\ ExchangeTick
  /\ LastRecord.success
  /\ Len(LastSequence) = 2
  /\ agents[Receiver(last.draw)].trustScores[Sender(last.draw)] =
       BeforeExchange[Receiver(last.draw)].trustScores[Sender(last.draw)]
       + 2 * TrustStep

\* A successful exchange that met the clamp.
C21_WitnessClamped ==
  /\ ExchangeTick
  /\ LastRecord.success
  /\ agents[Receiver(last.draw)].trustScores[Sender(last.draw)] = One
  /\ BeforeExchange[Receiver(last.draw)].trustScores[Sender(last.draw)]
       > One - TrustStep * Len(LastSequence)

\* The count of key k in the pattern table t, 0 when absent.
PatternCount(t, k) == IF k \in DOMAIN t THEN t[k] ELSE 0

\* The key of the ordered pair of symbols a, b.
OrderedKey(a, b) == a \o "-" \o b

(* C22: the SyntaxPattern table is changed only by exchanges of length 2 or*)
(* more: each such exchange increments by exactly 1 the count of the key   *)
(* formed from its symbols in order (a,b and b,a have different keys),     *)
(* exchanges of length 1 and no-op rounds leave the table unchanged, and   *)
(* between resets no count decreases and no key is removed.                *)
C22_SyntaxPatterns ==
  /\ [][last'.op = "tick" =>
          LET sequence == DrawSequence(last'.draw.len, last'.draw.syms)
          IN  IF RoundHappens(last'.draw) /\ Len(sequence) >= 2
              THEN /\ DOMAIN syntaxPatterns' =
                        DOMAIN syntaxPatterns \cup {OrderedKey(sequence[1], sequence[2])}
                   /\ \A k \in DOMAIN syntaxPatterns' :
                        syntaxPatterns'[k] =
                          PatternCount(syntaxPatterns, k)
                          + (IF k = OrderedKey(sequence[1], sequence[2]) THEN 1 ELSE 0)
              ELSE syntaxPatterns' = syntaxPatterns]_vars
  /\ [][last'.op # "reset" =>
          /\ DOMAIN syntaxPatterns \subseteq DOMAIN syntaxPatterns'
          /\ \A k \in DOMAIN syntaxPatterns :
               syntaxPatterns'[k] >= syntaxPatterns[k]]_vars

\* An exchange of length 2 just counted its key, (a,b) and (b,a) are both in
\* the table with different counts.
C22_Witness ==
  /\ last.op = "tick"
  /\ RoundHappens(last.draw)
  /\ Len(LastSequence) = 2
  /\ \E a \in SymbolSet : \E b \in SymbolSet :
       /\ a # b
       /\ OrderedKey(a, b) \in DOMAIN syntaxPatterns
       /\ OrderedKey(b, a) \in DOMAIN syntaxPatterns
       /\ syntaxPatterns[OrderedKey(a, b)] # syntaxPatterns[OrderedKey(b, a)]

(* C23: in every reachable state after initialization the population has   *)
(* the same fixed set of agent ids, every agent has exactly one            *)
(* SymbolMeaning for each vocabulary symbol and none for anything else, and*)
(* a trust entry for each other agent and none for itself; context shifts  *)
(* of every kind and reset preserve this.                                  *)
C23_Structure ==
  /\ DOMAIN agents = AgentIds
  /\ \A a \in DOMAIN agents :
       /\ agents[a].id = a
       /\ DOMAIN agents[a].symbolMappings = SymbolSet
       /\ DOMAIN agents[a].trustScores = AgentIds \ {a}

\* After context shifts of all three kinds, the last one just applied.
C23_Witness ==
  /\ last.op = "tick"
  /\ ShiftDue(last.step)
  /\ {contextShifts[i].type : i \in 1 .. Len(contextShifts)} = ShiftKinds

\* Right after a reset that followed a symbol_redefinition.
C23_WitnessReset ==
  /\ last.op = "reset"
  /\ last.fromStep > 100

\* The last tick's exchange used the meaning of symbol s held by agent a.
UsedInLastTick(a, s) ==
  /\ RoundHappens(last.draw)
  /\ a \in {Sender(last.draw), Receiver(last.draw)}
  /\ s \in LastSequenceSymbols

\* The last tick redefined symbol s.
RedefinedInLastTick(s) ==
  /\ ShiftDue(last.step)
  /\ ShiftType(last.draw) = "symbol_redefinition"
  /\ TargetSymbol(last.draw) = s

\* The meaning of s held by a has the vector and confidence it had before
\* the last tick.
MeaningKept(a, s) ==
  /\ agents[a].symbolMappings[s].vector = last.before[a].symbolMappings[s].vector
  /\ agents[a].symbolMappings[s].confidence =
       last.before[a].symbolMappings[s].confidence

(* C24, as stated: forgetting is the only mechanism by which a symbol      *)
(* unused in a step changes state: a meaning that the step's exchange does *)
(* not use has the same vector and confidence after the step as before it  *)
(* unless step - lastUsed > 20 held for that meaning.                      *)
C24_Original ==
  last.op = "tick" =>
    \A a \in DOMAIN last.before : \A s \in SymbolSet :
      (/\ ~UsedInLastTick(a, s)
       /\ last.step - last.before[a].symbolMappings[s].lastUsed <= 20) =>
        MeaningKept(a, s)

(* C24, amended: a meaning that the step's exchange does not use has the   *)
(* same vector and confidence after the step as before it unless           *)
(* step - lastUsed > 20 held for that meaning or the step applied a        *)
(* symbol_redefinition context shift that targets its symbol.              *)
C24_UnusedFrame ==
  last.op = "tick" =>
    \A a \in DOMAIN last.before : \A s \in SymbolSet :
      (/\ ~UsedInLastTick(a, s)
       /\ last.step - last.before[a].symbolMappings[s].lastUsed <= 20
       /\ ~RedefinedInLastTick(s)) =>
        MeaningKept(a, s)

\* A step with an exchange and a redefinition: one unused meaning was
\* recently used and kept, one was redefined, one was stale and forgotten.
C24_Witness ==
  /\ last.op = "tick"
  /\ RoundHappens(last.draw)
  /\ \E a \in DOMAIN last.before : \E s \in SymbolSet :
       /\ ~UsedInLastTick(a, s)
       /\ last.before[a].symbolMappings[s].lastUsed > 0
       /\ last.step - last.before[a].symbolMappings[s].lastUsed <= 20
       /\ ~RedefinedInLastTick(s)
       /\ MeaningKept(a, s)
  /\ \E a \in DOMAIN last.before : \E s \in SymbolSet :
       /\ ~UsedInLastTick(a, s)
       /\ last.step - last.before[a].symbolMappings[s].lastUsed <= 20
       /\ RedefinedInLastTick(s)
       /\ ~MeaningKept(a, s)
  /\ \E a \in DOMAIN last.before : \E s \in SymbolSet :
       /\ ~UsedInLastTick(a, s)
       /\ last.step - last.before[a].symbolMappings[s].lastUsed > 20
       /\ ~RedefinedInLastTick(s)
       /\ ~MeaningKept(a, s)

(* C25: between two resets no trust value ever decreases: across every     *)
(* tick (successful exchange, failed exchange, no-op round, forgetting     *)
(* pass, context shift of any kind) each agent's trust toward each peer is *)
(* greater than or equal to its previous value, hence never below the      *)
(* initial 0.5.                                                            *)
C25_TrustMonotone ==
  /\ [][last'.op # "reset" =>
          \A a \in DOMAIN agents : \A p \in DOMAIN agents[a].trustScores :
            agents'[a].trustScores[p] >= agents[a].trustScores[p]]_vars
  /\ [](\A a \in DOMAIN agents : \A p \in DOMAIN agents[a].trustScores :
          agents[a].trustScores[p] >= One \div 2)

\* A trust value has grown to 1 and another is still 0.5, after a context
\* shift, with a failed exchange in memory: the last tick's exchange failed.
C25_Witness ==
  /\ ExchangeTick
  /\ ~LastRecord.success
  /\ Len(contextShifts) > 0
  /\ \E a \in DOMAIN agents : \E p \in DOMAIN agents[a].trustScores :
       agents[a].trustScores[p] = One
  /\ \E a \in DOMAIN agents : \E p \in DOMAIN agents[a].trustScores :
       agents[a].trustScores[p] = One \div 2

====
